---- MODULE Spec2Model ----
(***************************************************************************)
(* TFFunctionEnvV2 (sarlopt/environments/tf_function_env_v2.py): the       *)
(* function-optimization environment as a state machine.  Positions live   *)
(* on an integer grid; the Philox generator is a deterministic function of *)
(* its key and its counter.  Two instances built from the same arguments   *)
(* (the environment and its twin) are driven by the same calls.            *)
(***************************************************************************)
EXTENDS Integers, Sequences, FiniteSets, TLC

\* ---------------------------------------------------------------- bounds
MaxSeed == 1
MaxDuration == 3
MaxAct == 1
DomainBound == 2
MaxDraws == 6
MaxSteps == 3
Scale == 10

\* ------------------------------------------------------------- constants
FIRST == 0
MID == 1
LAST == 2

Seeds == 0..MaxSeed
Durations == 0..MaxDuration
\* The dimensionalities an environment is built with.
DimsSet == {1, 2}
\* Per coordinate: a move down, no move, a move up.
ActionVals == {0 - MaxAct, 0, MaxAct}
Actions(n) == [1..n -> ActionVals]

\* Raised by the exclusive tf.case when two predicates hold.
InvalidArgument == [error |-> "InvalidArgumentError"]
\* Raised by the addition of two shapes that do not broadcast.
IncompatibleShapes == [error |-> "InvalidArgumentError: Incompatible shapes"]
\* Raised by Variable.assign of a value of another shape.
ShapeMismatch == [error |-> "ValueError: Shapes are incompatible"]
\* Raised by get_info and by render.
NotImplemented == [error |-> "NotImplementedError"]
ValueError == [error |-> "ValueError"]

\* The lengths of the action vectors a caller may pass.
ActionLens == {1, 2, 3}
\* The actions of a wrong length passed to an environment of n dimensions:
\* the same value in every coordinate.
MalformedActions(n) ==
  {[j \in 1..k |-> v] : k \in ActionLens \ {n}, v \in ActionVals}

\* -------------------------------------------------- objective functions
Sphere(lo, hi) == [name |-> "Sphere", domain |-> [min |-> lo, max |-> hi]]
SumSquares(lo, hi) == [name |-> "SumSquares", domain |-> [min |-> lo, max |-> hi]]
Rosenbrock(lo, hi) == [name |-> "Rosenbrock", domain |-> [min |-> lo, max |-> hi]]

\* The catalogs an environment is built with: one function, two functions
\* with congruent domains, two functions whose domains differ.
Catalogs ==
  { << Sphere(0 - DomainBound, DomainBound) >>,
    << Sphere(0 - DomainBound, DomainBound),
       SumSquares(0 - DomainBound, DomainBound) >>,
    << Sphere(0 - DomainBound, DomainBound),
       Rosenbrock(1 - DomainBound, DomainBound - 1) >> }

RECURSIVE SphereAt(_, _)
SphereAt(x, n) == IF n <= 0 THEN 0 ELSE x[n] * x[n] + SphereAt(x, n - 1)

RECURSIVE SumSquaresAt(_, _)
SumSquaresAt(x, n) ==
  IF n <= 0 THEN 0 ELSE n * x[n] * x[n] + SumSquaresAt(x, n - 1)

RECURSIVE RosenbrockAt(_, _)
RosenbrockAt(x, n) ==
  IF n <= 0 THEN 0
  ELSE 100 * (x[n + 1] - x[n] * x[n]) * (x[n + 1] - x[n] * x[n])
       + (x[n] - 1) * (x[n] - 1) + RosenbrockAt(x, n - 1)

\* f(x) of a catalog function at position x (a sequence of coordinates).
Evaluate(f, x) ==
  CASE f.name = "Sphere" -> SphereAt(x, Len(x))
    [] f.name = "SumSquares" -> SumSquaresAt(x, Len(x))
    [] f.name = "Rosenbrock" -> RosenbrockAt(x, Len(x) - 1)

\* ------------------------------------------------------- random stream
\* The Philox block of (key, counter), element j: a fixed mixing function.
philox(key, counter, j) ==
  ((key + 1) * 5 + (((counter + 1) * (counter + 2)) \div 2) * 3
     + j * (counter + key + 1)) % 64

\* Variant: a generator seeded from entropy, any key.
from_non_deterministic_state(s) == {[key |-> k, counter |-> 0] : k \in Seeds}
\* Generator.from_seed: the generator states a construction can start from.
from_seed(s) == {[key |-> s, counter |-> 0]}

\* rng.uniform(shape=(1, n), minval, maxval, float32): n values in [minval, maxval).
uniform_float(rng, n, minval, maxval) ==
  [j \in 1..n |-> minval + (philox(rng.key, rng.counter, j) % (maxval - minval))]

\* Variant: maxval is included in the range.
uniform_int_inclusive(rng, minval, maxval) ==
  minval + (philox(rng.key, rng.counter, 0) % (maxval - minval + 1))
\* rng.uniform(shape=(), minval, maxval, int32): one integer in [minval, maxval).
uniform_int(rng, minval, maxval) ==
  minval + (philox(rng.key, rng.counter, 0) % (maxval - minval))

\* Every uniform call advances the generator by one draw.
skip(rng) == [rng EXCEPT !.counter = @ + 1]

\* ------------------------------------------------------------- helpers
Min2(a, b) == IF a < b THEN a ELSE b
Max2(a, b) == IF a > b THEN a ELSE b

\* Variant: the two bounds are swapped.
clip_swapped(x, lo, hi) == [j \in DOMAIN x |-> Max2(Min2(x[j], lo), hi)]
\* Variant: the upper bound is not applied.
clip_no_upper(x, lo, hi) == [j \in DOMAIN x |-> Max2(x[j], lo)]
\* tf.clip_by_value
clip_by_value(x, lo, hi) == [j \in DOMAIN x |-> Max2(Min2(x[j], hi), lo)]

\* tf addition of a position of shape (1, n) and an action of shape (k,).
Broadcastable(x, a) == Len(a) = Len(x) \/ Len(a) = 1 \/ Len(x) = 1
broadcast_add(x, a) ==
  [j \in 1..Max2(Len(x), Len(a)) |->
     x[IF Len(x) = 1 THEN 1 ELSE j] + a[IF Len(a) = 1 THEN 1 ELSE j]]

AllZero(a) == \A j \in DOMAIN a : a[j] = 0

\* What a call produced: an error or a time step.
IsError(r) == DOMAIN r = {"error"}

VARIABLES
  functions,      \* self._functions: the catalog
  dims,           \* self._dims
  seed,           \* self._seed
  duration,       \* self._duration
  state,          \* self._state: the position
  fn_index,       \* self._fn_index
  steps_taken,    \* self._steps_taken
  episode_ended,  \* self._episode_ended
  rng,            \* self._rng: [key, counter]
  call,           \* the last call made on the environment
  branch,         \* the branch the last step took
  action,         \* the action of the last step
  ret,            \* what the last call returned
  calls,          \* step calls since construction or the last reset()
  twin,           \* a second instance built from the same arguments
  old,            \* the environment as it was when the last call was made
  order,          \* the order in which the last take_step ran its operations
  zero_run,       \* every step since the last draw of a position had a zero action
  alg,            \* the baseline that runs: GD or NAG
  function,       \* its objective function
  steps,          \* its number of iterations
  pos,            \* its position, in units of 1 / Scale
  velocity,       \* NAG's velocity, in units of 1 / Scale
  t,              \* the iterations done
  best_solutions, \* the best value so far, one entry per evaluation
  best_it,        \* the iteration recorded for the best value
  evals,          \* every value the baseline evaluated, in order
  returned        \* the baseline has returned (best_solutions, best_it)

vars == << functions, dims, seed, duration, state, fn_index, steps_taken,
           episode_ended, rng, call, branch, action, ret, calls, twin, old,
           order, zero_run, alg, function, steps, pos, velocity, t,
           best_solutions, best_it, evals, returned >>

NoAction == << >>
NoReturn == [none |-> TRUE]

domain_min == functions[1].domain.min
domain_max == functions[1].domain.max
n_functions == Len(functions)

\* The mutable part of one instance, as a record.
Self == [state |-> state, fn_index |-> fn_index, steps_taken |-> steps_taken,
         episode_ended |-> episode_ended, rng |-> rng, ret |-> ret]

\* self._fn_evaluator(x): one branch per catalog function.
fn_evaluator(x) == [i \in 1..n_functions |-> Evaluate(functions[i], x)]

\* tf.switch_case(fn_index, branches): an index out of range takes the last branch.
switch_case(i, branches) ==
  IF i >= 0 /\ i < Len(branches) THEN branches[i + 1] ELSE branches[Len(branches)]

first(e) == [step_type |-> FIRST, reward |-> 0]
\* Variant: the reward of the function after the active one.
mid_shifted(e) ==
  [step_type |-> MID,
   reward |-> 0 - switch_case(e.fn_index + 1, fn_evaluator(e.state))]
mid(e) == [step_type |-> MID,
           reward |-> 0 - switch_case(e.fn_index, fn_evaluator(e.state))]
last(e) == [step_type |-> LAST,
            reward |-> 0 - switch_case(e.fn_index, fn_evaluator(e.state))]

\* Variant: a terminal time step carries the discount 0.
current_time_step_terminal_discount(e) ==
  LET is_first == e.steps_taken <= 0
      is_last == e.episode_ended
      sr == IF is_first THEN first(e) ELSE IF is_last THEN last(e) ELSE mid(e)
  IN  IF is_first /\ is_last
      THEN InvalidArgument
      ELSE [step_type |-> sr.step_type, reward |-> sr.reward,
            discount |-> IF sr.step_type = LAST THEN 0 ELSE 1,
            observation |-> e.state]
\* TFFunctionEnvV2._current_time_step: the time step of the instance e, or
\* the error of the exclusive case.
_current_time_step(e) ==
  LET is_first == e.steps_taken <= 0
      is_last == e.episode_ended
      sr == IF is_first THEN first(e) ELSE IF is_last THEN last(e) ELSE mid(e)
  IN  IF is_first /\ is_last
      THEN InvalidArgument
      ELSE [step_type |-> sr.step_type, reward |-> sr.reward,
            discount |-> 1, observation |-> e.state]

\* Variant: the step counter is not cleared.
reset_keeps_counter(e) ==
  LET e1 == [e EXCEPT !.episode_ended = FALSE, !.steps_taken = e.steps_taken]
      e2 == [e1 EXCEPT !.state = uniform_float(e1.rng, dims, domain_min, domain_max),
                       !.rng = skip(e1.rng)]
      e3 == [e2 EXCEPT !.fn_index = uniform_int(e2.rng, 0, n_functions),
                       !.rng = skip(e2.rng)]
  IN  [e3 EXCEPT !.ret = _current_time_step(e3)]
\* Variant: the ended flag is not cleared.
reset_keeps_flag(e) ==
  LET e1 == [e EXCEPT !.steps_taken = 0]
      e2 == [e1 EXCEPT !.state = uniform_float(e1.rng, dims, domain_min, domain_max),
                       !.rng = skip(e1.rng)]
      e3 == [e2 EXCEPT !.fn_index = uniform_int(e2.rng, 0, n_functions),
                       !.rng = skip(e2.rng)]
  IN  [e3 EXCEPT !.ret = _current_time_step(e3)]
\* TFFunctionEnvV2._reset
_reset(e) ==
  LET e1 == [e EXCEPT !.episode_ended = FALSE, !.steps_taken = 0]
      e2 == [e1 EXCEPT !.state = uniform_float(e1.rng, dims, domain_min, domain_max),
                       !.rng = skip(e1.rng)]
      e3 == [e2 EXCEPT !.fn_index = uniform_int(e2.rng, 0, n_functions),
                       !.rng = skip(e2.rng)]
  IN  [e3 EXCEPT !.ret = _current_time_step(e3)]

\* Variant: the termination test reads the counter before the increment.
take_step_late_test(e, a) ==
  LET new_state == clip_by_value([j \in 1..dims |-> e.state[j] + a[j]],
                                 domain_min, domain_max)
      e1 == [e EXCEPT !.state = new_state]
      e2 == [e1 EXCEPT !.steps_taken = @ + 1]
      e3 == [e2 EXCEPT !.episode_ended =
                          IF e.steps_taken >= duration THEN TRUE ELSE @]
  IN  [e3 EXCEPT !.ret = _current_time_step(e3)]
\* Variant: the termination test is steps_taken > duration.
take_step_strict_test(e, a) ==
  LET new_state == clip_by_value([j \in 1..dims |-> e.state[j] + a[j]],
                                 domain_min, domain_max)
      e1 == [e EXCEPT !.state = new_state]
      e2 == [e1 EXCEPT !.steps_taken = @ + 1]
      e3 == [e2 EXCEPT !.episode_ended =
                          IF e2.steps_taken > duration THEN TRUE ELSE @]
  IN  [e3 EXCEPT !.ret = _current_time_step(e3)]
\* Variant: every step draws the active function anew.
take_step_redraws(e, a) ==
  LET new_state == clip_by_value(broadcast_add(e.state, a),
                                 domain_min, domain_max)
      e1 == [e EXCEPT !.state = new_state]
      e2 == [e1 EXCEPT !.steps_taken = @ + 1]
      e3 == [e2 EXCEPT !.episode_ended =
                          IF e2.steps_taken >= duration THEN TRUE ELSE @]
      e4 == [e3 EXCEPT !.fn_index = uniform_int(e3.rng, 0, n_functions),
                       !.rng = skip(e3.rng)]
  IN  [e4 EXCEPT !.ret = _current_time_step(e4)]
\* Variant: the position is clipped to the domain of the active function.
take_step_active_domain(e, a) ==
  LET new_state == clip_by_value(broadcast_add(e.state, a),
                                 functions[e.fn_index + 1].domain.min,
                                 functions[e.fn_index + 1].domain.max)
      e1 == [e EXCEPT !.state = new_state]
      e2 == [e1 EXCEPT !.steps_taken = @ + 1]
      e3 == [e2 EXCEPT !.episode_ended =
                          IF e2.steps_taken >= duration THEN TRUE ELSE @]
  IN  [e3 EXCEPT !.ret = _current_time_step(e3)]
\* TFFunctionEnvV2._step.take_step: assign the position, add to the counter,
\* test the counter, derive the time step, in program order.  An action
\* that does not broadcast fails in the addition, a sum of another shape
\* fails in the assignment of the position, both before any update.
take_step(e, a) ==
  IF ~Broadcastable(e.state, a)
  THEN [e EXCEPT !.ret = IncompatibleShapes]
  ELSE
  LET new_state == clip_by_value(broadcast_add(e.state, a),
                                 domain_min, domain_max)
      e1 == [e EXCEPT !.state = new_state]
      e2 == [e1 EXCEPT !.steps_taken = @ + 1]
      e3 == [e2 EXCEPT !.episode_ended =
                          IF e2.steps_taken >= duration THEN TRUE ELSE @]
  IN  IF Len(new_state) # Len(e.state)
      THEN [e EXCEPT !.ret = ShapeMismatch]
      ELSE [e3 EXCEPT !.ret = _current_time_step(e3)]

\* The operations of take_step that follow the computation of new_state.
Ops == {"state_update", "steps_update", "episode_finished", "current_time_step"}
ProgramOrder ==
  << "state_update", "steps_update", "episode_finished", "current_time_step" >>

\* Variant: only the explicit control dependencies order the operations.
before_explicit_only(x, y) == y = "current_time_step" /\ x # y
\* Variant: the time step is not chained after the updates.
before_unchained(x, y) == x = "steps_update" /\ y = "episode_finished"
\* x runs before y: current_time_step is under the control dependencies of
\* the three updates; the read of steps_taken in the termination test
\* follows the assign_add of the same variable, as in the program.  The
\* position assignment is not ordered with the counter and the test.
before(x, y) ==
  \/ y = "current_time_step" /\ x # y
  \/ x = "steps_update" /\ y = "episode_finished"

\* The orders in which one take_step may run its operations.
Orders == {o \in [1..4 -> Ops] : \A i, j \in 1..4 : i # j => o[i] # o[j]}
PermittedOrders ==
  {o \in Orders : \A i, j \in 1..4 : before(o[i], o[j]) => i < j}

\* One operation of take_step on the instance e.
run_op(e, op, new_state) ==
  CASE op = "state_update" -> [e EXCEPT !.state = new_state]
    [] op = "steps_update" -> [e EXCEPT !.steps_taken = @ + 1]
    [] op = "episode_finished" ->
         [e EXCEPT !.episode_ended = IF e.steps_taken >= duration THEN TRUE ELSE @]
    [] op = "current_time_step" -> [e EXCEPT !.ret = _current_time_step(e)]

RECURSIVE run_ops(_, _, _, _)
run_ops(e, o, i, new_state) ==
  IF i > Len(o) THEN e ELSE run_ops(run_op(e, o[i], new_state), o, i + 1, new_state)

\* take_step with its operations run in the order o.
take_step_in_order(e, a, o) ==
  LET new_state == clip_by_value(broadcast_add(e.state, a),
                                 domain_min, domain_max)
  IN  run_ops(e, o, 1, new_state)

\* Variant: the action is applied after the reset.
reset_env_then_move(e, a) == take_step(_reset(e), a)
\* Variant: the episode restarts without new draws.
reset_env_restart(e, a) ==
  LET e1 == [e EXCEPT !.episode_ended = FALSE, !.steps_taken = 0]
  IN  [e1 EXCEPT !.ret = _current_time_step(e1)]
\* TFFunctionEnvV2._step.reset_env
reset_env(e, a) == _reset(e)

\* Variant: a step in the terminal state moves on instead of resetting.
step_without_reset(e, a) == take_step(e, a)
\* TFFunctionEnvV2._step
_step(e, a) == IF e.episode_ended THEN reset_env(e, a) ELSE take_step(e, a)

\* TFFunctionEnvV2.__init__ from a generator state g
init(g) ==
  LET s0 == uniform_float(g, dims, domain_min, domain_max)
      g1 == skip(g)
      i0 == uniform_int(g1, 0, n_functions)
      g2 == skip(g1)
  IN  [state |-> s0, fn_index |-> i0, steps_taken |-> 0,
       episode_ended |-> FALSE, rng |-> g2, ret |-> NoReturn]

\* Commit the record e as the environment's next state.
Becomes(e) ==
  /\ state' = e.state
  /\ fn_index' = e.fn_index
  /\ steps_taken' = e.steps_taken
  /\ episode_ended' = e.episode_ended
  /\ rng' = e.rng
  /\ ret' = e.ret

Config == << functions, dims, seed, duration >>

\* The variables of the baseline optimizers.
Baseline == << alg, function, steps, pos, velocity, t, best_solutions,
              best_it, evals, returned >>

\* No baseline runs.
NoBaseline ==
  /\ alg = "none"
  /\ function = Sphere(0 - DomainBound, DomainBound)
  /\ steps = 0
  /\ pos = << >>
  /\ velocity = << >>
  /\ t = 0
  /\ best_solutions = << >>
  /\ best_it = 0
  /\ evals = << >>
  /\ returned = FALSE

\* The construction of an environment.
EnvInit ==
  /\ functions \in Catalogs
  /\ dims \in DimsSet
  /\ seed \in Seeds
  /\ duration \in Durations
  /\ \E g \in from_seed(seed) :
       LET e == init(g)
       IN  /\ state = e.state
           /\ fn_index = e.fn_index
           /\ steps_taken = e.steps_taken
           /\ episode_ended = e.episode_ended
           /\ rng = e.rng
           /\ ret = e.ret
           /\ old = e
  /\ \E g \in from_seed(seed) : twin = init(g)
  /\ call = "__init__"
  /\ branch = "none"
  /\ action = NoAction
  /\ calls = 0
  /\ order = << >>
  /\ zero_run = TRUE

Init == EnvInit /\ NoBaseline

\* env.reset()
Reset ==
  /\ rng.counter + 2 <= MaxDraws
  /\ Becomes(_reset(Self))
  /\ twin' = _reset(twin)
  /\ call' = "reset"
  /\ branch' = "none"
  /\ action' = NoAction
  /\ calls' = 0
  /\ old' = Self
  /\ order' = << >>
  /\ zero_run' = TRUE
  /\ UNCHANGED << Config, Baseline >>

\* env.step(action)
Step ==
  \E a \in Actions(dims) :
    /\ episode_ended => rng.counter + 2 <= MaxDraws
    /\ Becomes(_step(Self, a))
    /\ twin' = _step(twin, a)
    /\ call' = "step"
    /\ branch' = IF episode_ended THEN "reset_env" ELSE "take_step"
    /\ action' = a
    /\ calls' = calls + 1
    /\ old' = Self
    /\ order' = IF episode_ended THEN << >> ELSE ProgramOrder
    /\ zero_run' = IF episode_ended THEN TRUE ELSE zero_run /\ AllZero(a)
    /\ UNCHANGED << Config, Baseline >>

\* Variant: reading the time step starts a new episode.
CurrentTimeStepAndReset ==
  /\ Becomes(IF rng.counter + 2 <= MaxDraws
             THEN _reset(Self)
             ELSE [Self EXCEPT !.ret = _current_time_step(Self)])
  /\ twin' = IF rng.counter + 2 <= MaxDraws
             THEN _reset(twin)
             ELSE [twin EXCEPT !.ret = _current_time_step(twin)]
  /\ call' = "current_time_step"
  /\ branch' = "none"
  /\ action' = NoAction
  /\ old' = Self
  /\ order' = << >>
  /\ UNCHANGED << Config, Baseline, calls, zero_run >>
\* env.current_time_step()
CurrentTimeStep ==
  /\ Becomes([Self EXCEPT !.ret = _current_time_step(Self)])
  /\ twin' = [twin EXCEPT !.ret = _current_time_step(twin)]
  /\ call' = "current_time_step"
  /\ branch' = "none"
  /\ action' = NoAction
  /\ old' = Self
  /\ order' = << >>
  /\ UNCHANGED << Config, Baseline, calls, zero_run >>

Next == Reset \/ Step \/ CurrentTimeStep

Spec == Init /\ [][Next]_vars

\* env.step(action), the operations of take_step run in any permitted order
StepInOrder ==
  \E a \in Actions(dims),
     o \in (IF episode_ended THEN {ProgramOrder} ELSE PermittedOrders) :
    /\ episode_ended => rng.counter + 2 <= MaxDraws
    /\ Becomes(IF episode_ended THEN reset_env(Self, a)
                                ELSE take_step_in_order(Self, a, o))
    /\ twin' = IF twin.episode_ended THEN reset_env(twin, a)
                                     ELSE take_step_in_order(twin, a, o)
    /\ call' = "step"
    /\ branch' = IF episode_ended THEN "reset_env" ELSE "take_step"
    /\ action' = a
    /\ calls' = calls + 1
    /\ old' = Self
    /\ order' = IF episode_ended THEN << >> ELSE o
    /\ zero_run' = IF episode_ended THEN TRUE ELSE zero_run /\ AllZero(a)
    /\ UNCHANGED << Config, Baseline >>

NextInOrder == Reset \/ StepInOrder \/ CurrentTimeStep

SpecInOrder == Init /\ [][NextInOrder]_vars

\* env.step(action) with an action whose length is not dims
StepMalformed ==
  \E a \in MalformedActions(dims) :
    /\ episode_ended => rng.counter + 2 <= MaxDraws
    /\ Becomes(_step(Self, a))
    /\ twin' = _step(twin, a)
    /\ call' = "step"
    /\ branch' = IF episode_ended THEN "reset_env" ELSE "take_step"
    /\ action' = a
    /\ calls' = IF IsError(_step(Self, a).ret) THEN calls ELSE calls + 1
    /\ old' = Self
    /\ order' = IF episode_ended THEN << >> ELSE ProgramOrder
    /\ zero_run' = IF episode_ended THEN TRUE ELSE zero_run /\ AllZero(a)
    /\ UNCHANGED << Config, Baseline >>

\* Variant: get_info returns nothing instead of raising.
GetInfoReturnsNone ==
  /\ ret' = NoReturn
  /\ twin' = [twin EXCEPT !.ret = NoReturn]
  /\ call' = "get_info"
  /\ branch' = "none"
  /\ action' = NoAction
  /\ old' = Self
  /\ order' = << >>
  /\ UNCHANGED << Config, Baseline, state, fn_index, steps_taken,
                  episode_ended, rng, calls, zero_run >>
\* env.get_info()
GetInfo ==
  /\ ret' = NotImplemented
  /\ twin' = [twin EXCEPT !.ret = NotImplemented]
  /\ call' = "get_info"
  /\ branch' = "none"
  /\ action' = NoAction
  /\ old' = Self
  /\ order' = << >>
  /\ UNCHANGED << Config, Baseline, state, fn_index, steps_taken,
                  episode_ended, rng, calls, zero_run >>

\* env.render()
Render ==
  /\ ret' = ValueError
  /\ twin' = [twin EXCEPT !.ret = ValueError]
  /\ call' = "render"
  /\ branch' = "none"
  /\ action' = NoAction
  /\ old' = Self
  /\ order' = << >>
  /\ UNCHANGED << Config, Baseline, state, fn_index, steps_taken,
                  episode_ended, rng, calls, zero_run >>

\* The calls of a driver and the two unsupported queries.
NextQueries == Reset \/ Step \/ CurrentTimeStep \/ GetInfo \/ Render

SpecQueries == Init /\ [][NextQueries]_vars

\* The calls of a driver that also passes actions of a wrong length.
NextMalformed == Reset \/ Step \/ CurrentTimeStep \/ StepMalformed

SpecMalformed == Init /\ [][NextMalformed]_vars

\* ===================================================================
\* Baseline optimizers (experiments/evaluation/utils.py).  Positions,
\* velocities and gradients are fixed-point numbers in units of 1 / Scale;
\* every product with a learning rate or a momentum is rounded down.
\* ===================================================================

\* A rational factor num / den.
Rate(num, den) == [num |-> num, den |-> den]
\* v times the factor q.
Times(v, q) == (v * q.num) \div q.den

\* gd_lrs and its default
gd_lrs(name) ==
  CASE name = "F1" -> Rate(1, 10)
    [] name = "F2" -> Rate(1, 100)
    [] name = "F3" -> Rate(1, 10000)
    [] name = "F4" -> Rate(1, 10000)
    [] name = "F5" -> Rate(1, 100)
    [] name = "F6" -> Rate(1, 10)
    [] name = "F7" -> Rate(1, 10)
    [] name = "F8" -> Rate(1, 10000)
    [] OTHER -> Rate(1, 100)

\* nag_params and its default: (learning rate, momentum)
nag_params(name) ==
  CASE name = "F1" -> << Rate(1, 10), Rate(5, 10) >>
    [] name = "F2" -> << Rate(1, 1000), Rate(5, 10) >>
    [] name = "F3" -> << Rate(1, 10000), Rate(9, 10) >>
    [] name = "F4" -> << Rate(1, 10000), Rate(9, 10) >>
    [] name = "F5" -> << Rate(1, 10), Rate(8, 10) >>
    [] name = "F6" -> << Rate(1, 1000), Rate(9, 10) >>
    [] name = "F7" -> << Rate(1, 10), Rate(9, 10) >>
    [] name = "F8" -> << Rate(1, 10000), Rate(9, 10) >>
    [] OTHER -> << Rate(1, 100), Rate(8, 10) >>

\* Rosenbrock at the fixed-point position p, in units of 1 / Scale^4.
RECURSIVE RosenbrockFixed(_, _)
RosenbrockFixed(p, n) ==
  IF n <= 0 THEN 0
  ELSE 100 * (p[n + 1] * Scale - p[n] * p[n]) * (p[n + 1] * Scale - p[n] * p[n])
       + (Scale - p[n]) * (Scale - p[n]) * Scale * Scale
       + RosenbrockFixed(p, n - 1)

\* function(pos): the value at the fixed-point position p, in a unit that
\* depends on the function only.
ValueAt(f, p) ==
  IF f.name = "Rosenbrock" THEN RosenbrockFixed(p, Len(p) - 1) ELSE Evaluate(f, p)

\* function.grads_at(pos): the gradient at p, in units of 1 / Scale.
GradsAt(f, p) ==
  LET n == Len(p)
      ros(i) ==
        (IF i < n
         THEN 0 - 400 * p[i] * (p[i + 1] * Scale - p[i] * p[i])
              - 2 * (Scale - p[i]) * Scale * Scale
         ELSE 0)
        + (IF i > 1
           THEN 200 * (p[i] * Scale - p[i - 1] * p[i - 1]) * Scale
           ELSE 0)
  IN  [i \in 1..n |->
         CASE f.name = "Sphere" -> 2 * p[i]
           [] f.name = "SumSquares" -> 2 * i * p[i]
           [] f.name = "Rosenbrock" -> ros(i) \div (Scale * Scale)]

\* The functions the baselines are run on and their start positions.
BaselineFunctions ==
  { Sphere(0 - DomainBound, DomainBound),
    SumSquares(0 - DomainBound, DomainBound),
    Rosenbrock(0 - DomainBound, DomainBound) }
StartPositions ==
  UNION {[1..n -> {k * Scale : k \in (0 - DomainBound)..DomainBound}] : n \in DimsSet}

ClipToDomain(p, f) == clip_by_value(p, f.domain.min * Scale, f.domain.max * Scale)

Last(q) == q[Len(q)]

\* Variant: the latest value is appended, not the best so far.
append_latest(best, y) == Append(best, y)
\* best_solutions.append(min(y, best_solutions[-1]))
append_best(best, y) == Append(best, Min2(y, Last(best)))

\* if y < best_solutions[-1]: best_it = t
improved_at(best, y, it, i) == IF y < Last(best) THEN i ELSE it

\* The idle environment next to a running baseline.
IdleEnv ==
  /\ EnvInit
  /\ functions = << Sphere(0 - DomainBound, DomainBound) >>
  /\ dims = 1
  /\ seed = 0
  /\ duration = 1

\* GD(function, pos, steps) and NAG(function, pos, steps) up to their loops.
BaselineInit ==
  /\ IdleEnv
  /\ alg \in {"GD", "NAG"}
  /\ function \in BaselineFunctions
  /\ steps \in 0..MaxSteps
  /\ pos \in StartPositions
  /\ velocity = [j \in DOMAIN pos |-> 0]
  /\ t = 0
  /\ best_solutions = << ValueAt(function, pos) >>
  /\ best_it = 0
  /\ evals = << ValueAt(function, pos) >>
  /\ returned = FALSE

Environment == << state, fn_index, steps_taken, episode_ended, rng, call,
                 branch, action, ret, calls, twin, old, order, zero_run >>

\* One iteration of GD's loop.
GDIteration ==
  /\ alg = "GD"
  /\ ~returned
  /\ t < steps
  /\ LET lr == gd_lrs(function.name)
         grads == GradsAt(function, pos)
         new_pos == ClipToDomain([j \in DOMAIN pos |-> pos[j] - Times(grads[j], lr)],
                                 function)
         y == ValueAt(function, new_pos)
     IN  /\ pos' = new_pos
         /\ best_it' = improved_at(best_solutions, y, best_it, t)
         /\ best_solutions' = append_best(best_solutions, y)
         /\ evals' = Append(evals, y)
  /\ t' = t + 1
  /\ UNCHANGED << Config, Environment, alg, function, steps, velocity, returned >>

\* One iteration of NAG's loop.
NAGIteration ==
  /\ alg = "NAG"
  /\ ~returned
  /\ t < steps
  /\ LET lr == nag_params(function.name)[1]
         momentum == nag_params(function.name)[2]
         projected == ClipToDomain(
                        [j \in DOMAIN pos |-> pos[j] + Times(velocity[j], momentum)],
                        function)
         grads == GradsAt(function, projected)
         new_velocity == [j \in DOMAIN pos |->
                            Times(velocity[j], momentum) - Times(grads[j], lr)]
         new_pos == ClipToDomain([j \in DOMAIN pos |-> pos[j] + new_velocity[j]],
                                 function)
         current_pos == ValueAt(function, new_pos)
     IN  /\ velocity' = new_velocity
         /\ pos' = new_pos
         /\ best_it' = improved_at(best_solutions, current_pos, best_it, t)
         /\ best_solutions' = append_best(best_solutions, current_pos)
         /\ evals' = Append(evals, current_pos)
  /\ t' = t + 1
  /\ UNCHANGED << Config, Environment, alg, function, steps, returned >>

\* return best_solutions, best_it
BaselineReturn ==
  /\ alg \in {"GD", "NAG"}
  /\ ~returned
  /\ t = steps
  /\ returned' = TRUE
  /\ UNCHANGED << Config, Environment, alg, function, steps, pos, velocity, t,
                  best_solutions, best_it, evals >>

BaselineNext == GDIteration \/ NAGIteration \/ BaselineReturn

SpecBaselines == BaselineInit /\ [][BaselineNext]_vars

\* ===================================================================
\* Properties
\* ===================================================================

IsTimeStep(r) == DOMAIN r = {"step_type", "reward", "discount", "observation"}

\* v clipped into [lo, hi], written out coordinate by coordinate.
Clipped(v, lo, hi) == IF v < lo THEN lo ELSE IF v > hi THEN hi ELSE v

\* The value of the active function at a position.
ActiveValue(x) == Evaluate(functions[fn_index + 1], x)

\* C1: after construction and after every reset and step, whatever the
\* actions, every coordinate of position lies within [domain.min, domain.max].
C1_DomainContainment ==
  /\ DOMAIN state = 1..dims
  /\ \A j \in 1..dims : domain_min <= state[j] /\ state[j] <= domain_max

\* A step whose action would have left the domain through the upper bound.
C1_Witness ==
  /\ call = "step"
  /\ branch = "take_step"
  /\ \E j \in 1..dims : old.state[j] + action[j] > domain_max

\* C2: for a duration D >= 1, the k-th step call after construction or a
\* reset() returns MID for k < D, LAST for k = D and FIRST (the implicit
\* reset) for k = D + 1, and so on in every following episode.
C2_EpisodeLength ==
  (call = "step" /\ duration >= 1) =>
     /\ IsTimeStep(ret)
     /\ LET r == calls % (duration + 1)
        IN  ret.step_type = IF r = 0 THEN FIRST
                            ELSE IF r = duration THEN LAST ELSE MID

\* The (D+1)-th step of an episode of the longest duration.
C2_Witness ==
  /\ call = "step"
  /\ duration = MaxDuration
  /\ calls = duration + 1
  /\ ret.step_type = FIRST

\* C3 as stated: the reward of every returned time step, FIRST included,
\* is the negated value of the active function at its observation.
C3_RewardEveryStepType ==
  IsTimeStep(ret) => ret.reward = 0 - ActiveValue(ret.observation)

\* C3: the reward of every MID and LAST time step is the negated value of
\* the active function at its observation; the reward of a FIRST time step
\* is 0.
C3_RewardConsistency ==
  IsTimeStep(ret) =>
     /\ ret.step_type \in {MID, LAST} =>
          ret.reward = 0 - ActiveValue(ret.observation)
     /\ ret.step_type = FIRST => ret.reward = 0

\* A MID time step of the second catalog function with a reward below 0.
C3_Witness ==
  /\ IsTimeStep(ret)
  /\ ret.step_type = MID
  /\ fn_index = 1
  /\ ret.reward < 0

C5_StepAfterEnd ==
  (call = "step" /\ old.episode_ended) =>
     /\ IsTimeStep(ret)
     /\ state = uniform_float(old.rng, dims, domain_min, domain_max)
     /\ fn_index = uniform_int(skip(old.rng), 0, n_functions)
     /\ rng = skip(skip(old.rng))
     /\ steps_taken = 0
     /\ ~episode_ended
     /\ ret.step_type = FIRST
     /\ ret.reward = 0
     /\ ret.observation = state

\* A step in the terminal state made with a non-zero action.
C5_Witness ==
  /\ call = "step"
  /\ old.episode_ended
  /\ \E j \in 1..dims : action[j] # 0

\* C6: reset(), from a fresh, a running or a terminal state, leaves
\* steps_taken = 0 and episode_ended = false and returns the FIRST time step
\* with reward 0 and the newly drawn position as observation.
C6_Reset ==
  call = "reset" =>
     /\ steps_taken = 0
     /\ ~episode_ended
     /\ IsTimeStep(ret)
     /\ ret.step_type = FIRST
     /\ ret.reward = 0
     /\ state = uniform_float(old.rng, dims, domain_min, domain_max)
     /\ ret.observation = state

\* A reset() made in the middle of an episode.
C6_Witness ==
  /\ call = "reset"
  /\ old.steps_taken > 0
  /\ ~old.episode_ended

\* C7: a step made while the episode has not ended does not raise, sets
\* position to the clipped sum of the old position and the action, adds
\* exactly 1 to steps_taken and sets episode_ended exactly when the new
\* steps_taken >= duration.
C7_TakeStep ==
  (call = "step" /\ ~old.episode_ended) =>
     /\ IsTimeStep(ret)
     /\ state = [j \in 1..dims |->
                   Clipped(old.state[j] + action[j], domain_min, domain_max)]
     /\ steps_taken = old.steps_taken + 1
     /\ episode_ended = (steps_taken >= duration)

\* A step that is clipped at the lower bound and does not end the episode.
C7_Witness ==
  /\ call = "step"
  /\ ~old.episode_ended
  /\ ~episode_ended
  /\ \E j \in 1..dims : old.state[j] + action[j] < domain_min

\* C8: current_time_step() changes none of position, function index, step
\* counter, ended flag and random stream, and returns what the call before
\* it returned.
C8_PureRead ==
  call = "current_time_step" =>
     /\ state = old.state
     /\ fn_index = old.fn_index
     /\ steps_taken = old.steps_taken
     /\ episode_ended = old.episode_ended
     /\ rng = old.rng
     /\ old.ret # NoReturn => ret = old.ret

\* current_time_step() called on a LAST time step.
C8_Witness ==
  /\ call = "current_time_step"
  /\ IsTimeStep(old.ret)
  /\ old.ret.step_type = LAST
  /\ ret.step_type = LAST

\* C9: with duration >= 1, episode_ended holds exactly when
\* steps_taken >= duration; the flag is set only by a step whose incremented
\* counter reaches the duration, and no LAST time step is returned while
\* steps_taken < duration.
C9_EndedIffDuration ==
  duration >= 1 =>
     /\ episode_ended <=> (steps_taken >= duration)
     /\ (episode_ended /\ ~old.episode_ended) =>
           /\ call = "step"
           /\ steps_taken = old.steps_taken + 1
           /\ steps_taken >= duration
     /\ (IsTimeStep(ret) /\ ret.step_type = LAST) => steps_taken >= duration

\* The step that ends an episode of more than one step.
C9_Witness ==
  /\ duration >= 2
  /\ call = "step"
  /\ episode_ended
  /\ ~old.episode_ended
  /\ ret.step_type = LAST

\* C10: episode_ended goes from true to false only through a reset, the
\* explicit reset() or the reset of a step made in the terminal state, both
\* of which draw a new position and function index; a step that advances
\* the position and current_time_step() never do it.
C10_EndedMonotonic ==
  /\ (old.episode_ended /\ ~episode_ended) =>
        /\ call \in {"reset", "step"}
        /\ call = "step" => branch = "reset_env"
        /\ steps_taken = 0
        /\ rng.counter = old.rng.counter + 2
  /\ (call = "step" /\ branch = "take_step") =>
        (old.episode_ended => episode_ended)
  /\ call = "current_time_step" => episode_ended = old.episode_ended

\* The flag went from true to false in a step made in the terminal state.
C10_Witness ==
  /\ old.episode_ended
  /\ ~episode_ended
  /\ call = "step"

\* C11: after construction and after every reset and step,
\* active_function_index is an integer i with 0 <= i < catalog_size.
C11_ValidFunctionIndex ==
  /\ fn_index \in Int
  /\ 0 <= fn_index
  /\ fn_index < n_functions

\* A reset that drew the second function of a catalog of two.
C11_Witness ==
  /\ call = "reset"
  /\ n_functions = 2
  /\ fn_index = 1

\* C13 as stated: an environment on which reset or step has been called
\* was built with a duration >= 1.
C13_NonPositiveDurationRejected ==
  call \in {"reset", "step"} => duration >= 1

\* C14 as stated: the functions of a constructed environment all have the
\* domain bounds of the first one.
C14_MismatchedDomainsRejected ==
  \A i \in 1..n_functions : functions[i].domain = functions[1].domain

\* C12 as stated: a step whose action has another length than dims fails,
\* and position, step counter, ended flag and function index keep their
\* values.
C12_MalformedActionFails ==
  (call = "step" /\ Len(action) # dims) =>
     /\ IsError(ret)
     /\ state = old.state
     /\ steps_taken = old.steps_taken
     /\ episode_ended = old.episode_ended
     /\ fn_index = old.fn_index

\* C15: render() and get_info() fail with an error, whatever the state, and
\* leave position, function index, step counter and ended flag unchanged.
C15_Unsupported ==
  call \in {"render", "get_info"} =>
     /\ IsError(ret)
     /\ call = "render" => ret = ValueError
     /\ call = "get_info" => ret = NotImplemented
     /\ state = old.state
     /\ fn_index = old.fn_index
     /\ steps_taken = old.steps_taken
     /\ episode_ended = old.episode_ended
     /\ rng = old.rng

\* get_info() called in the terminal state.
C15_Witness ==
  /\ call = "get_info"
  /\ old.episode_ended
  /\ IsError(ret)

\* The position drawn by the construction or the reset that came last.
PostResetPosition ==
  uniform_float([rng EXCEPT !.counter = @ - 2], dims, domain_min, domain_max)

\* C16: a step with the all-zero action in a non-terminal state leaves the
\* position as it was, and as long as every step of an episode has the zero
\* action the position and every observation equal the post-reset position.
C16_ZeroAction ==
  /\ (call = "step" /\ branch = "take_step" /\ AllZero(action)) =>
        state = old.state
  /\ zero_run =>
        /\ state = PostResetPosition
        /\ IsTimeStep(ret) => ret.observation = PostResetPosition

\* The last step of a whole episode of zero actions.
C16_Witness ==
  /\ zero_run
  /\ call = "step"
  /\ duration = MaxDuration
  /\ steps_taken = duration
  /\ ret.step_type = LAST

C20_SnapshotAfterUpdates ==
  (call = "step" /\ branch = "take_step") =>
     /\ IsTimeStep(ret)
     /\ state = [j \in 1..dims |->
                   Clipped(old.state[j] + action[j], domain_min, domain_max)]
     /\ ret.observation = state
     /\ ret.reward = 0 - ActiveValue(state)
     /\ ret.step_type = IF steps_taken <= 0 THEN FIRST
                        ELSE IF episode_ended THEN LAST ELSE MID

\* A step that moved the position, the position assigned after the counter.
C20_Witness ==
  /\ call = "step"
  /\ branch = "take_step"
  /\ order[1] = "steps_update"
  /\ order[2] = "state_update"
  /\ state # old.state
  /\ ret.reward # 0 - ActiveValue(old.state)

RECURSIVE MinOf(_, _)
\* The least of the first n entries of q.
MinOf(q, n) == IF n <= 1 THEN q[1] ELSE Min2(q[n], MinOf(q, n - 1))

\* C17: the best-value sequence of GD and of NAG is non-increasing, and its
\* entry k is the least of the values evaluated at the start position and
\* after the iterations 1..k.
C17_BestSoFar ==
  alg \in {"GD", "NAG"} =>
     /\ Len(best_solutions) = t + 1
     /\ Len(evals) = t + 1
     /\ \A k \in 1..Len(best_solutions) :
          /\ best_solutions[k] = MinOf(evals, k)
          /\ k > 1 => best_solutions[k] <= best_solutions[k - 1]

\* A returned run in which a value went up after it had gone down.
C17_Witness ==
  /\ returned
  /\ \E k \in 2..(Len(evals) - 1) :
        /\ evals[k] < evals[k - 1]
        /\ evals[k + 1] > evals[k]

\* C18 as stated: the entry of the returned sequence at the returned
\* iteration is the final best value, and a start position that was never
\* improved on is reported as iteration 0.
C18_BestIteration ==
  returned =>
     /\ best_it + 1 <= Len(best_solutions)
     /\ best_solutions[best_it + 1] = Last(best_solutions)
     /\ Last(best_solutions) = best_solutions[1] => best_it = 0

\* C21: every time step carries the discount 1, whatever its step type:
\* the time step that ends an episode carries 1 as well, never 0.
C21_FixedDiscount ==
  /\ IsTimeStep(ret) => ret.discount = 1
  /\ IsTimeStep(twin.ret) => twin.ret.discount = 1

\* The step that reached the duration returned LAST.
C21_Witness ==
  /\ call = "step"
  /\ branch = "take_step"
  /\ steps_taken = duration
  /\ IsTimeStep(ret)
  /\ ret.step_type = LAST
  /\ ret.discount = 1

\* The function index drawn by the construction or the reset that came last.
PostResetFunction ==
  uniform_int([rng EXCEPT !.counter = @ - 1], 0, n_functions)

\* C22: a step made while episode_ended is false leaves the function index
\* and the random stream as they were, so the active function is the one
\* drawn when the episode began; the stream advances only at construction
\* and at a reset, explicit or implicit, each time by two draws, the
\* position from the first and the function index from the second.
C22_StepFrame ==
  /\ (call = "step" /\ branch = "take_step") =>
        /\ fn_index = old.fn_index
        /\ rng = old.rng
  /\ call = "current_time_step" => rng = old.rng /\ fn_index = old.fn_index
  /\ (call = "reset" \/ (call = "step" /\ branch = "reset_env")) =>
        /\ rng.key = old.rng.key
        /\ rng.counter = old.rng.counter + 2
        /\ state = uniform_float(old.rng, dims, domain_min, domain_max)
        /\ fn_index = uniform_int([old.rng EXCEPT !.counter = @ + 1],
                                  0, n_functions)
  /\ call = "__init__" =>
        /\ rng = [key |-> seed, counter |-> 2]
        /\ state = uniform_float([key |-> seed, counter |-> 0], dims,
                                 domain_min, domain_max)
        /\ fn_index = uniform_int([key |-> seed, counter |-> 1], 0, n_functions)
  /\ fn_index = PostResetFunction

\* The last step of an episode of two or more steps, another function than
\* the first being active, the stream where the reset left it.
C22_Witness ==
  /\ call = "step"
  /\ branch = "take_step"
  /\ steps_taken >= 2
  /\ steps_taken = duration
  /\ fn_index = 1
  /\ rng.counter = 4
  /\ state # old.state

\* C23: in an environment of duration >= 1 the step counter stays within
\* 0..duration, however many steps are made, because a step in the terminal
\* state resets instead of counting on.
C23_CounterBounded ==
  duration >= 1 =>
     /\ steps_taken \in 0..duration
     /\ twin.steps_taken \in 0..duration
     /\ (call = "step" /\ old.steps_taken = duration) => steps_taken = 0

\* The counter is at the duration again after more step calls than one
\* episode has steps.
C23_Witness ==
  /\ duration >= 1
  /\ call = "step"
  /\ steps_taken = duration
  /\ calls > duration + 1

\* C24: in no state is the counter at 0 or below while the ended flag is
\* set, the state after construction included, so the exclusive case of
\* current_time_step has at most one predicate that holds and no call
\* fails as ambiguous.
C24_ExclusiveClassification ==
  /\ ~(steps_taken <= 0 /\ episode_ended)
  /\ ~(twin.steps_taken <= 0 /\ twin.episode_ended)
  /\ ret # InvalidArgument
  /\ twin.ret # InvalidArgument

\* current_time_step() called on a terminal state that a reset left and a
\* new episode reached again.
C24_Witness ==
  /\ call = "current_time_step"
  /\ episode_ended
  /\ steps_taken = duration
  /\ rng.counter >= 4
  /\ IsTimeStep(ret)
  /\ ret.step_type = LAST

\* C25: the position is drawn, at construction and at every reset, between
\* the bounds of the first function of the catalog and clipped to them at
\* every step, whichever function is active; it lies within the domain of
\* the first function also while another function is active.
C25_FirstFunctionDomain ==
  LET lo == functions[1].domain.min
      hi == functions[1].domain.max
  IN  /\ \A j \in 1..dims : lo <= state[j] /\ state[j] <= hi
      /\ (call = "step" /\ branch = "take_step") =>
            state = [j \in 1..dims |-> Clipped(old.state[j] + action[j], lo, hi)]
      /\ (call = "reset" \/ (call = "step" /\ branch = "reset_env")) =>
            state = uniform_float(old.rng, dims, lo, hi)
      /\ call = "__init__" =>
            state = uniform_float([key |-> seed, counter |-> 0], dims, lo, hi)

\* A step that left the position outside the domain of the active function,
\* on a bound of the first one.
C25_Witness ==
  /\ call = "step"
  /\ branch = "take_step"
  /\ fn_index = 1
  /\ functions[2].domain # functions[1].domain
  /\ \E j \in 1..dims :
        /\ state[j] > functions[2].domain.max
        /\ state[j] = functions[1].domain.max
        /\ old.state[j] + action[j] > functions[1].domain.max

====
